---------------------------- MODULE Spec2Model ----------------------------
(***************************************************************************)
(* A model of the ccxt-ohlcv-loader sync engine.                           *)
(*                                                                         *)
(*   fetchOHLCVData          probe, plan, page loop with rate-limit retry, *)
(*                           merge / dedup / trim / gap check              *)
(*   persistOHLCVInBatches   ensure table, batched upsert with retry       *)
(*   fetchExchangeOHLCV      one cycle over the symbols of an exchange     *)
(*   cronSyncData.onTick     the trigger handler and its syncing flag      *)
(*                                                                         *)
(* Time is in milliseconds.  A raw candle is <<timestamp, v>> where v      *)
(* stands for the five value columns (open, high, low, close, volume).     *)
(***************************************************************************)
EXTENDS Integers, Sequences, FiniteSets, TLC

VARIABLES
    \* ---- upstream exchange (external collaborator) ----
    market,            \* open times of the candles the exchange holds
    exLimit,           \* the exchange's own cap on candles per response
    \* ---- fetchOHLCVData ----
    fpc,               \* position in fetchOHLCVData
    since,             \* dateToTimestamp(fromDate)
    toTs,              \* dateToTimestamp(toDate), or Date.now() when toDate is null
    initialData,       \* the probe's response
    maxLimit,
    timeframeInterval,
    totalLimit,
    numRequests,
    requests,          \* the planned requests' since values
    reqIdx,            \* index of the request the for loop is at (1-based)
    retryCount,
    allData,
    processed,
    finalData,
    missingCandles,
    thrown,            \* what fetchOHLCVData threw, or NoError
    \* ---- history of the run (observation only) ----
    calls,             \* every exchange.fetchOHLCV call, in order: its since and outcome
    rlFails,           \* rate-limit errors received for the current request
    pageWaits,         \* sleep(60000) waits performed for the current request
    pageLog,           \* one record per request that succeeded
    raised,            \* what the latest exchange.fetchOHLCV call raised, or NoError
    \* ---- storage (external collaborator) ----
    db,                \* per market type, the rows of <exchange>_<type>_ohlcv
    dbTables,          \* the market types whose table exists
    \* ---- persistToPostgres ----
    qpc,               \* position in persistToPostgres
    qBatch,            \* its data argument
    qType,             \* its marketType argument
    qAttempt,          \* failed attempts of its retry(...) so far
    \* ---- persistOHLCVInBatches ----
    ppc,               \* position in persistOHLCVInBatches
    pdata,             \* its data argument
    pType,             \* its marketType argument
    pIdx,              \* the loop variable i (0-based offset into data)
    ensureAttempt,     \* failed attempts of ensureTableExists' retry(...) so far
    outerAttempt,      \* failed attempts of the batch's retry(..., maxRetries, ...) so far
    \* ---- history of the writes (observation only) ----
    ensured,           \* how often ensureTableExists completed in this call
    batchLog,          \* one record per batch the loop is done with
    upserts,           \* number of direct persistToPostgres calls made so far
    lastBatch,         \* the batch of the latest upsert that succeeded
    lastType,          \* its market type
    dbBefore,          \* the table as it was before that upsert
    repeated,          \* that upsert repeated the one before it (same batch, same table)
    \* ---- fetchExchangeOHLCV ----
    now,               \* Date.now()
    cpc,               \* position in fetchExchangeOHLCV
    symIdx,            \* the loop variable i (1-based index into the symbols)
    latestSpotSymbolsTime,
    latestPerpSymbolsTime,
    fromDate,          \* the from argument handed to fetchOHLCVData
    caught,            \* what the catch of fetchExchangeOHLCV caught, or NoError
    \* ---- history of the cycle (observation only) ----
    fetchLog,          \* the symbols fetchOHLCVData was called for, in order
    lookupFailed,      \* a getLatestTimesForAllSymbols query failed in this cycle
    failedAt,          \* index of the symbol whose sync threw, or 0
    \* ---- cronSyncData.onTick ----
    syncing,
    tickPc,            \* per trigger firing, the position of its onTick call
    tickEx,            \* per trigger firing, the loop variable i (1-based)
    fired              \* number of trigger firings so far

fetchVars == <<fpc, since, toTs, initialData, maxLimit, timeframeInterval,
               totalLimit, numRequests, requests, reqIdx, retryCount, allData,
               processed, finalData, missingCandles, thrown>>
histVars  == <<calls, rlFails, pageWaits, pageLog, raised>>
exVars    == <<market, exLimit>>

dbVars    == <<db, dbTables>>
pgVars    == <<qpc, qBatch, qType, qAttempt>>
persistVars == <<ppc, pdata, pType, pIdx, ensureAttempt, outerAttempt>>
writeHist == <<ensured, batchLog, upserts, lastBatch, lastType, dbBefore, repeated>>

fetchAll   == <<exVars, fetchVars, histVars>>
persistAll == <<dbVars, pgVars, persistVars, writeHist>>

cycleVars == <<now, cpc, symIdx, latestSpotSymbolsTime, latestPerpSymbolsTime,
               fromDate, caught, fetchLog, lookupFailed, failedAt>>
cronVars  == <<syncing, tickPc, tickEx, fired>>

vars == <<fetchAll, persistAll, cycleVars, cronVars>>

---------------------------------------------------------------------------
(* Bounds of the model *)

MaxT      == 4    \* upstream candle open times range over 0..MaxT
MaxSince  == 1    \* since ranges over 0..MaxSince
MaxExLimit == 3   \* the exchange's response cap ranges over 2..MaxExLimit
MaxOpenMinute == 1  \* rows handed to the writer open at minute 0..MaxOpenMinute
MaxData   == 3    \* persistOHLCVInBatches is given at most MaxData rows
MaxBatch  == 2    \* a direct persistToPostgres call is given at most MaxBatch rows
MaxUpsertMinute == 0  \* ... which open at minute 0..MaxUpsertMinute

(* Program constants *)

LIMIT      == 1000000
maxRetries == 3
OneMinuteMs == 60000

---------------------------------------------------------------------------
(* Helpers *)

Min(a, b) == IF a <= b THEN a ELSE b
Max(a, b) == IF a >= b THEN a ELSE b

\* Math.ceil(a / b) for b > 0
CeilDiv(a, b) == -((-a) \div b)

\* Math.floor(a / b) for b > 0
FloorDiv(a, b) == a \div b

\* Array.prototype.slice(0, n)
SliceTo(s, n) ==
    LET k == IF n >= 0 THEN Min(n, Len(s)) ELSE Max(Len(s) + n, 0)
    IN  SubSeq(s, 1, k)

RECURSIVE SetToAscSeq(_)
SetToAscSeq(S) ==
    IF S = {} THEN <<>>
    ELSE LET m == CHOOSE x \in S : \A y \in S : x <= y
         IN  <<m>> \o SetToAscSeq(S \ {m})

\* insert candle c into the sequence s (sorted by timestamp), after equal keys
RECURSIVE InsertByTs(_, _)
InsertByTs(c, s) ==
    IF s = <<>> THEN <<c>>
    ELSE IF c[1] < Head(s)[1] THEN <<c>> \o s
         ELSE <<Head(s)>> \o InsertByTs(c, Tail(s))

\* uniqueData.sort((a, b) => a[0] - b[0]): a stable sort by timestamp
RECURSIVE SortByTs(_)
SortByTs(s) ==
    IF s = <<>> THEN <<>>
    ELSE InsertByTs(s[Len(s)], SortByTs(SubSeq(s, 1, Len(s) - 1)))

---------------------------------------------------------------------------
(* The upstream exchange *)

Vals == {1, 2}

NoError == [kind |-> "none"]

\* what error.toString() of an upstream error may contain
UpstreamErrors == [kind : {"upstream"}, rateLimitText : BOOLEAN, has429 : BOOLEAN]

\* a classification that takes every upstream error for a rate-limit signal
IsRateLimitAnyError(error) == error.kind = "upstream"

\* error.toString().includes('rate limit') || error.toString().includes('429')
IsRateLimit(error) ==
    /\ error.kind = "upstream"
    /\ (error.rateLimitText \/ error.has429)

\* a successful exchange.fetchOHLCV(market, timeframe, s, limit): the oldest
\* candles at or after s, at most the exchange's cap of them
FetchOHLCV(s, limit, v) ==
    LET ts == SetToAscSeq({t \in market : t >= s})
        n  == Min(Len(ts), Min(limit, exLimit))
    IN  [i \in 1..n |-> <<ts[i], v>>]

---------------------------------------------------------------------------
(* fetchOHLCVData: the planner *)

PlanTotalLimit(endTs, firstTs, interval) == CeilDiv(endTs - firstTs, interval)

\* Math.floor in place of Math.ceil
PlanNumRequestsFloor(total, pageSize) == FloorDiv(total, pageSize)

PlanNumRequests(total, pageSize) == CeilDiv(total, pageSize)

\* a plan that always holds a request
PlanRequestsAtLeastOne(from, n, pageSize, interval) ==
    [i \in 1..Max(n, 1) |-> from + ((i - 1) * pageSize * interval)]

PlanRequests(from, n, pageSize, interval) ==
    [i \in 1..Max(n, 0) |-> from + ((i - 1) * pageSize * interval)]

---------------------------------------------------------------------------
(* fetchOHLCVData: merge, dedup, trim, gap check *)

\* the dedup that keeps the last occurrence of a timestamp
RECURSIVE DedupByTsKeepLast(_, _)
DedupByTsKeepLast(s, seenTimestamps) ==
    IF s = <<>> THEN <<>>
    ELSE IF \E k \in 2..Len(s) : s[k][1] = Head(s)[1]
         THEN DedupByTsKeepLast(Tail(s), seenTimestamps)
         ELSE <<Head(s)>> \o DedupByTsKeepLast(Tail(s), seenTimestamps)

RECURSIVE DedupByTs(_, _)
DedupByTs(s, seenTimestamps) ==
    IF s = <<>> THEN <<>>
    ELSE IF Head(s)[1] \in seenTimestamps
         THEN DedupByTs(Tail(s), seenTimestamps)
         ELSE <<Head(s)>> \o DedupByTs(Tail(s), seenTimestamps \cup {Head(s)[1]})

\* the merge without its sort
UniqueDataUnsorted(all) == DedupByTs(all, {})

UniqueData(all) == SortByTs(DedupByTs(all, {}))

FinalData(all, total) == SliceTo(UniqueData(all), total)

RECURSIVE MissingFrom(_, _, _)
MissingFrom(data, i, expectedInterval) ==
    IF i > Len(data) THEN 0
    ELSE LET actualInterval == data[i][1] - data[i - 1][1]
             missing == IF actualInterval # expectedInterval
                        THEN FloorDiv(actualInterval, expectedInterval) - 1
                        ELSE 0
         IN  missing + MissingFrom(data, i + 1, expectedInterval)

MissingCandles(data, expectedInterval) == MissingFrom(data, 2, expectedInterval)

---------------------------------------------------------------------------
(* fetchOHLCVData: the run *)

\* the record of one exchange.fetchOHLCV call: the outcome is read off the
\* error's text, not off the code's classification of it
Call(s, e) ==
    [since |-> s,
     out   |-> IF e.kind = "none" THEN "ok"
               ELSE IF e.rateLimitText \/ e.has429 THEN "ratelimit"
               ELSE "error"]

\* the outer catch logs and rethrows
FetchThrow(e) ==
    /\ fpc' = "threw"
    /\ thrown' = e

\* the probe that asks again when the response holds fewer than two candles
FetchProbeAgain ==
    /\ fpc = "probe"
    /\ UNCHANGED <<persistAll, cycleVars, cronVars>>
    /\ UNCHANGED <<exVars, since, toTs, reqIdx, retryCount, allData, processed,
                   finalData, missingCandles, rlFails, pageWaits, pageLog>>
    /\ \/ \E e \in UpstreamErrors :
            /\ raised' = e
            /\ calls' = Append(calls, Call(since, e))
            /\ FetchThrow(e)
            /\ UNCHANGED <<initialData, maxLimit, timeframeInterval, totalLimit,
                           numRequests, requests>>
       \/ \E v \in Vals :
            LET data == FetchOHLCV(since, LIMIT, v) IN
            /\ raised' = NoError
            /\ calls' = Append(calls, Call(since, NoError))
            /\ initialData' = data
            /\ IF Len(data) = 0
               THEN /\ FetchThrow([kind |-> "NoData"])
                    /\ UNCHANGED <<maxLimit, timeframeInterval, totalLimit,
                                   numRequests, requests>>
               ELSE IF Len(data) = 1
               THEN /\ IF Len(calls) >= 1
                       THEN FetchThrow([kind |-> "NotEnoughData"])
                       ELSE UNCHANGED <<fpc, thrown>>
                    /\ UNCHANGED <<maxLimit, timeframeInterval, totalLimit,
                                   numRequests, requests>>
               ELSE LET interval == data[2][1] - data[1][1]
                        total == PlanTotalLimit(toTs, data[1][1], interval)
                        n == PlanNumRequests(total, Len(data))
                    IN  /\ maxLimit' = Len(data)
                        /\ timeframeInterval' = interval
                        /\ totalLimit' = total
                        /\ numRequests' = n
                        /\ requests' = PlanRequests(since, n, Len(data), interval)
                        /\ fpc' = IF n >= 1 THEN "page" ELSE "aggregate"
                        /\ UNCHANGED thrown

\* the probe: one fetchOHLCV call, then the plan (no await in between)
FetchProbe ==
    /\ fpc = "probe"
    /\ UNCHANGED <<persistAll, cycleVars, cronVars>>
    /\ UNCHANGED <<exVars, since, toTs, reqIdx, retryCount, allData, processed,
                   finalData, missingCandles, rlFails, pageWaits, pageLog>>
    /\ \/ \E e \in UpstreamErrors :
            /\ raised' = e
            /\ calls' = Append(calls, Call(since, e))
            /\ FetchThrow(e)
            /\ UNCHANGED <<initialData, maxLimit, timeframeInterval, totalLimit,
                           numRequests, requests>>
       \/ \E v \in Vals :
            LET data == FetchOHLCV(since, LIMIT, v) IN
            /\ raised' = NoError
            /\ calls' = Append(calls, Call(since, NoError))
            /\ initialData' = data
            /\ IF Len(data) = 0
               THEN /\ FetchThrow([kind |-> "NoData"])
                    /\ UNCHANGED <<maxLimit, timeframeInterval, totalLimit,
                                   numRequests, requests>>
               ELSE IF Len(data) = 1
               THEN /\ FetchThrow([kind |-> "NotEnoughData"])
                    /\ UNCHANGED <<maxLimit, timeframeInterval, totalLimit,
                                   numRequests, requests>>
               ELSE LET interval == data[2][1] - data[1][1]
                        total == PlanTotalLimit(toTs, data[1][1], interval)
                        n == PlanNumRequests(total, Len(data))
                    IN  /\ maxLimit' = Len(data)
                        /\ timeframeInterval' = interval
                        /\ totalLimit' = total
                        /\ numRequests' = n
                        /\ requests' = PlanRequests(since, n, Len(data), interval)
                        /\ fpc' = IF n >= 1 THEN "page" ELSE "aggregate"
                        /\ UNCHANGED thrown

\* one attempt of the current request inside the while (retryCount < maxRetries)
FetchPage ==
    /\ fpc = "page"
    /\ reqIdx <= Len(requests)
    /\ retryCount < maxRetries
    /\ UNCHANGED <<persistAll, cycleVars, cronVars>>
    /\ UNCHANGED <<exVars, since, toTs, initialData, maxLimit, timeframeInterval,
                   totalLimit, numRequests, requests, finalData, missingCandles>>
    /\ \/ \E v \in Vals :
            \* success: push, processed++, break, sleep(100), next request
            LET chunkData == FetchOHLCV(requests[reqIdx], LIMIT, v) IN
            /\ raised' = NoError
            /\ calls' = Append(calls, Call(requests[reqIdx], NoError))
            /\ allData' = allData \o chunkData
            /\ processed' = processed + 1
            /\ pageLog' = Append(pageLog, [since |-> requests[reqIdx],
                                           fails |-> rlFails,
                                           waits |-> pageWaits,
                                           chunk |-> chunkData])
            /\ reqIdx' = reqIdx + 1
            /\ retryCount' = 0
            /\ rlFails' = 0
            /\ pageWaits' = 0
            /\ fpc' = IF reqIdx + 1 <= Len(requests) THEN "page" ELSE "aggregate"
            /\ UNCHANGED thrown
       \/ \E e \in UpstreamErrors :
            /\ raised' = e
            /\ calls' = Append(calls, Call(requests[reqIdx], e))
            /\ IF IsRateLimit(e)
               THEN /\ fpc' = "backoff"
                    /\ rlFails' = rlFails + 1
                    /\ UNCHANGED <<reqIdx, retryCount, allData, processed, thrown,
                                   pageWaits, pageLog>>
               ELSE /\ FetchThrow(e)
                    /\ UNCHANGED <<reqIdx, retryCount, allData, processed, rlFails,
                                   pageWaits, pageLog>>

\* the back-off with the retry ceiling reached one attempt early
FetchBackoffEarly ==
    /\ fpc = "backoff"
    /\ pageWaits' = pageWaits + 1
    /\ retryCount' = retryCount + 1
    /\ IF retryCount + 1 >= maxRetries - 1
       THEN FetchThrow([kind |-> "RateLimitRetries"])
       ELSE /\ fpc' = "page"
            /\ UNCHANGED thrown
    /\ UNCHANGED <<persistAll, cycleVars, cronVars>>
    /\ UNCHANGED <<exVars, since, toTs, initialData, maxLimit, timeframeInterval,
                   totalLimit, numRequests, requests, reqIdx, allData, processed,
                   finalData, missingCandles, calls, rlFails, pageLog, raised>>

\* the back-off that gives up on the request and moves on to the next one
FetchBackoffSkip ==
    /\ fpc = "backoff"
    /\ pageWaits' = IF retryCount + 1 >= maxRetries THEN 0 ELSE pageWaits + 1
    /\ retryCount' = IF retryCount + 1 >= maxRetries THEN 0 ELSE retryCount + 1
    /\ rlFails' = IF retryCount + 1 >= maxRetries THEN 0 ELSE rlFails
    /\ reqIdx' = IF retryCount + 1 >= maxRetries THEN reqIdx + 1 ELSE reqIdx
    /\ fpc' = IF retryCount + 1 >= maxRetries /\ reqIdx + 1 > Len(requests)
              THEN "aggregate" ELSE "page"
    /\ UNCHANGED <<persistAll, cycleVars, cronVars>>
    /\ UNCHANGED <<exVars, since, toTs, initialData, maxLimit, timeframeInterval,
                   totalLimit, numRequests, requests, allData, processed,
                   finalData, missingCandles, thrown, calls, pageLog, raised>>

\* await sleep(60000); retryCount++; then the loop test and the check after it
FetchBackoff ==
    /\ fpc = "backoff"
    /\ pageWaits' = pageWaits + 1
    /\ retryCount' = retryCount + 1
    /\ IF retryCount + 1 >= maxRetries
       THEN FetchThrow([kind |-> "RateLimitRetries"])
       ELSE /\ fpc' = "page"
            /\ UNCHANGED thrown
    /\ UNCHANGED <<persistAll, cycleVars, cronVars>>
    /\ UNCHANGED <<exVars, since, toTs, initialData, maxLimit, timeframeInterval,
                   totalLimit, numRequests, requests, reqIdx, allData, processed,
                   finalData, missingCandles, calls, rlFails, pageLog, raised>>

\* dedup, sort, trim, gap check, return
FetchAggregate ==
    /\ fpc = "aggregate"
    /\ finalData' = FinalData(allData, totalLimit)
    /\ missingCandles' = MissingCandles(FinalData(allData, totalLimit), timeframeInterval)
    /\ fpc' = "returned"
    /\ UNCHANGED <<persistAll, cycleVars, cronVars>>
    /\ UNCHANGED <<exVars, since, toTs, initialData, maxLimit, timeframeInterval,
                   totalLimit, numRequests, requests, reqIdx, retryCount, allData,
                   processed, thrown, histVars>>

FetchStart(from, endTs) ==
    /\ fpc = "probe"
    /\ since = from
    /\ toTs = endTs
    /\ initialData = <<>>
    /\ maxLimit = 0
    /\ timeframeInterval = 0
    /\ totalLimit = 0
    /\ numRequests = 0
    /\ requests = <<>>
    /\ reqIdx = 1
    /\ retryCount = 0
    /\ allData = <<>>
    /\ processed = 0
    /\ finalData = <<>>
    /\ missingCandles = 0
    /\ thrown = NoError
    /\ calls = <<>>
    /\ rlFails = 0
    /\ pageWaits = 0
    /\ pageLog = <<>>
    /\ raised = NoError


---------------------------------------------------------------------------
(* Storage: the rows of a table and the upsert statement *)

MarketTypes == {"spot", "swap"}

Symbols == {"BTC/USDT", "BTC/USDT:USDT"}

\* the PRIMARY KEY (symbol, open_time)
Key(r) == <<r.symbol, r.open_time>>

Keys(rows) == {Key(r) : r \in rows}

\* two rows of one INSERT hit the same key: Postgres rejects the statement
\* ("ON CONFLICT DO UPDATE command cannot affect row a second time")
HasDupKeys(data) ==
    \E i, j \in 1..Len(data) : i # j /\ Key(data[i]) = Key(data[j])

\* ON CONFLICT (symbol, open_time) DO NOTHING: the stored values are kept
UpsertDoNothing(rows, data) ==
    rows \cup {data[i] : i \in {k \in 1..Len(data) : Key(data[k]) \notin Keys(rows)}}

\* a write that replaces the table's rows by the batch
UpsertReplaceTable(rows, data) == {data[i] : i \in 1..Len(data)}

\* INSERT ... ON CONFLICT (symbol, open_time) DO UPDATE SET open, high, low,
\* close, volume = excluded.*: close_time of an existing row is kept
Upsert(rows, data) ==
    LET new(k) == CHOOSE i \in 1..Len(data) : Key(data[i]) = k
        kept     == {r \in rows : Key(r) \notin {Key(data[i]) : i \in 1..Len(data)}}
        updated  == {[r EXCEPT !.v = data[new(Key(r))].v] :
                        r \in {x \in rows : Key(x) \in {Key(data[i]) : i \in 1..Len(data)}}}
        inserted == {data[i] : i \in {k \in 1..Len(data) : Key(data[k]) \notin Keys(rows)}}
    IN  kept \cup updated \cup inserted

---------------------------------------------------------------------------
(* utils/retry *)

\* the attempt ceiling of retry(fn) called without a count
DefaultRetryAttempts == 3

\* retry(fn, n, delay) after one more failure of fn: it gives up (rethrows)
\* once fn has failed n times, and tries again after the delay otherwise
RetryExhausted(failures, n) == failures >= n

---------------------------------------------------------------------------
(* parsing/ohlcv.ts *)

RECURSIVE DedupByCloseTime(_, _)
DedupByCloseTime(data, seen) ==
    IF data = <<>> THEN <<>>
    ELSE LET key == <<Head(data).symbol, Head(data).close_time>> IN
         IF key \in seen
         THEN DedupByCloseTime(Tail(data), seen)
         ELSE <<Head(data)>> \o DedupByCloseTime(Tail(data), seen \cup {key})

\* a deduplication that keeps every row
deduplicateNothing(data) == data

deduplicateOHLCVData(data) == DedupByCloseTime(data, {})

---------------------------------------------------------------------------
(* persistToPostgres *)

NoBatch == <<>>

\* entering persistToPostgres(data, exchangeName, marketType)
PersistToPostgresCall(data, marketType) ==
    /\ qpc' = IF Len(data) = 0 THEN "ok" ELSE "query"
    /\ qBatch' = data
    /\ qType' = marketType
    /\ qAttempt' = 0

\* one pool.query(queryText, values) inside retry(...)
PersistToPostgresQuery ==
    /\ qpc = "query"
    /\ \/ /\ qType \in dbTables
          /\ ~HasDupKeys(qBatch)
          /\ db' = [db EXCEPT ![qType] = Upsert(@, qBatch)]
          /\ qpc' = "ok"
          /\ repeated' = (lastBatch = qBatch /\ lastType = qType)
          /\ lastBatch' = qBatch
          /\ lastType' = qType
          /\ dbBefore' = db[qType]
          /\ qAttempt' = 0
       \/ /\ qAttempt' = IF RetryExhausted(qAttempt + 1, DefaultRetryAttempts)
                         THEN 0 ELSE qAttempt + 1
          /\ qpc' = IF RetryExhausted(qAttempt + 1, DefaultRetryAttempts)
                    THEN "threw" ELSE "query"
          /\ UNCHANGED <<db, repeated, lastBatch, lastType, dbBefore>>
    /\ UNCHANGED <<dbTables, qBatch, qType, persistVars, ensured, batchLog, upserts>>
    /\ UNCHANGED <<fetchAll, cycleVars, cronVars>>

---------------------------------------------------------------------------
(* persistOHLCVInBatches *)

\* env.PERSISTENCE_BATCH_SIZE
BatchSize == 2

\* the maxRetries parameter's default
persistMaxRetries == 3

\* data.slice(i, i + batchSize), deduplicated
\* with batch size batchSize
SliceAt(data, i, batchSize) == SubSeq(data, i + 1, Min(i + batchSize, Len(data)))

BatchOf(data, i, batchSize) == deduplicateOHLCVData(SliceAt(data, i, batchSize))

BatchAt(data, i) == BatchOf(data, i, BatchSize)

\* entering persistOHLCVInBatches(data, exchangeName, marketType)
PersistCall(data, marketType) ==
    /\ pdata' = data
    /\ pType' = marketType
    /\ pIdx' = 0
    /\ ensureAttempt' = 0
    /\ outerAttempt' = 0
    /\ batchLog' = <<>>
    /\ ensured' = 0
    /\ ppc' = IF Len(data) = 0 THEN "returned" ELSE "ensure"

\* an ensure step that creates the table anew, dropping the one that exists
PersistEnsureRecreate ==
    /\ ppc = "ensure"
    /\ \/ /\ dbTables' = dbTables \cup {pType}
          /\ db' = [db EXCEPT ![pType] = {}]
          /\ ppc' = "slice"
          /\ ensureAttempt' = 0
          /\ ensured' = ensured + 1
       \/ /\ ensureAttempt' = IF RetryExhausted(ensureAttempt + 1, DefaultRetryAttempts)
                              THEN 0 ELSE ensureAttempt + 1
          /\ ppc' = IF RetryExhausted(ensureAttempt + 1, DefaultRetryAttempts)
                    THEN "threw" ELSE "ensure"
          /\ UNCHANGED <<db, dbTables, ensured>>
    /\ UNCHANGED <<pgVars, pdata, pType, pIdx, outerAttempt, batchLog, upserts,
                   lastBatch, lastType, dbBefore, repeated>>
    /\ UNCHANGED <<fetchAll, cycleVars, cronVars>>

\* one pool.query(createTableQuery) inside ensureTableExists' retry(...)
PersistEnsure ==
    /\ ppc = "ensure"
    /\ \/ /\ dbTables' = dbTables \cup {pType}
          /\ ppc' = "slice"
          /\ ensureAttempt' = 0
          /\ ensured' = ensured + 1
       \/ /\ ensureAttempt' = IF RetryExhausted(ensureAttempt + 1, DefaultRetryAttempts)
                              THEN 0 ELSE ensureAttempt + 1
          /\ ppc' = IF RetryExhausted(ensureAttempt + 1, DefaultRetryAttempts)
                    THEN "threw" ELSE "ensure"
          /\ UNCHANGED <<dbTables, ensured>>
    /\ UNCHANGED <<db, pgVars, pdata, pType, pIdx, outerAttempt, batchLog, upserts,
                   lastBatch, lastType, dbBefore, repeated>>
    /\ UNCHANGED <<fetchAll, cycleVars, cronVars>>

\* the for loop's test, the slice and the first persistToPostgres of the batch
PersistSlice ==
    /\ ppc = "slice"
    /\ IF pIdx < Len(pdata)
       THEN /\ ppc' = "upsert"
            /\ outerAttempt' = 0
            /\ PersistToPostgresCall(BatchAt(pdata, pIdx), pType)
       ELSE /\ ppc' = "returned"
            /\ UNCHANGED <<pgVars, outerAttempt>>
    /\ UNCHANGED <<dbVars, pdata, pType, pIdx, ensureAttempt, writeHist>>
    /\ UNCHANGED <<fetchAll, cycleVars, cronVars>>

BatchRecord(outcome) ==
    [start |-> pIdx, batch |-> qBatch, out |-> outcome]

\* persistToPostgres returned: the batch is done, i += batchSize
PersistBatchOk ==
    /\ ppc = "upsert"
    /\ qpc = "ok"
    /\ batchLog' = Append(batchLog, BatchRecord("persisted"))
    /\ pIdx' = pIdx + BatchSize
    /\ ppc' = "slice"
    /\ qpc' = "idle"
    /\ outerAttempt' = 0
    /\ UNCHANGED <<dbVars, qBatch, qType, qAttempt, pdata, pType, ensureAttempt,
                   ensured, upserts, lastBatch, lastType, dbBefore, repeated>>
    /\ UNCHANGED <<fetchAll, cycleVars, cronVars>>

\* the loop without its try/catch: an exhausted batch ends the call
PersistBatchFailedRethrow ==
    /\ ppc = "upsert"
    /\ qpc = "threw"
    /\ IF RetryExhausted(outerAttempt + 1, persistMaxRetries)
       THEN /\ ppc' = "threw"
            /\ qpc' = "idle"
            /\ outerAttempt' = 0
            /\ UNCHANGED <<batchLog, pIdx, qBatch, qType, qAttempt>>
       ELSE /\ outerAttempt' = outerAttempt + 1
            /\ PersistToPostgresCall(qBatch, qType)
            /\ UNCHANGED <<batchLog, pIdx, ppc>>
    /\ UNCHANGED <<dbVars, pdata, pType, ensureAttempt,
                   ensured, upserts, lastBatch, lastType, dbBefore, repeated>>
    /\ UNCHANGED <<fetchAll, cycleVars, cronVars>>

\* persistToPostgres threw: retry(..., maxRetries, retryDelayMs) calls it again,
\* or gives up and the catch logs the batch as not persisted
PersistBatchFailed ==
    /\ ppc = "upsert"
    /\ qpc = "threw"
    /\ IF RetryExhausted(outerAttempt + 1, persistMaxRetries)
       THEN /\ batchLog' = Append(batchLog, BatchRecord("skipped"))
            /\ pIdx' = pIdx + BatchSize
            /\ ppc' = "slice"
            /\ qpc' = "idle"
            /\ outerAttempt' = 0
            /\ UNCHANGED <<qBatch, qType, qAttempt>>
       ELSE /\ outerAttempt' = outerAttempt + 1
            /\ PersistToPostgresCall(qBatch, qType)
            /\ UNCHANGED <<batchLog, pIdx, ppc>>
    /\ UNCHANGED <<dbVars, pdata, pType, ensureAttempt,
                   ensured, upserts, lastBatch, lastType, dbBefore, repeated>>
    /\ UNCHANGED <<fetchAll, cycleVars, cronVars>>

PersistNotStarted ==
    /\ qpc = "idle"
    /\ qBatch = NoBatch
    /\ qType = "spot"
    /\ qAttempt = 0
    /\ ppc = "idle"
    /\ pdata = <<>>
    /\ pType = "spot"
    /\ pIdx = 0
    /\ ensureAttempt = 0
    /\ outerAttempt = 0
    /\ ensured = 0
    /\ batchLog = <<>>
    /\ upserts = 0
    /\ lastBatch = NoBatch
    /\ lastType = "spot"
    /\ dbBefore = {}
    /\ repeated = FALSE

PersistIdle ==
    /\ db = [t \in MarketTypes |-> {}]
    /\ dbTables = {}
    /\ PersistNotStarted

FetchNotStarted ==
    /\ fpc = "idle"
    /\ since = 0
    /\ toTs = 0
    /\ initialData = <<>>
    /\ maxLimit = 0
    /\ timeframeInterval = 0
    /\ totalLimit = 0
    /\ numRequests = 0
    /\ requests = <<>>
    /\ reqIdx = 1
    /\ retryCount = 0
    /\ allData = <<>>
    /\ processed = 0
    /\ finalData = <<>>
    /\ missingCandles = 0
    /\ thrown = NoError
    /\ calls = <<>>
    /\ rlFails = 0
    /\ pageWaits = 0
    /\ pageLog = <<>>
    /\ raised = NoError

FetchIdle ==
    /\ market = {}
    /\ exLimit = 2
    /\ FetchNotStarted

---------------------------------------------------------------------------
(* fetchExchangeOHLCV: one cycle over the symbols of an exchange *)

\* the symbols of the filtered markets of exchange.loadMarkets(), in order,
\* and markets[symbol].type
CycleSymbols == <<"BTC/USDT", "BTC/USDT:USDT">>

MarketTypeOf(symbol) == IF symbol = "BTC/USDT" THEN "spot" ELSE "swap"

\* env.HISTORICAL_DATA_TO_KEEP_MS
LookbackMinutes == 3
HISTORICAL_DATA_TO_KEEP_MS == LookbackMinutes * OneMinuteMs

\* new Date(date).toISOString().replace("T", ' '): the date as text, to the
\* millisecond
formatUnixDatetimeForCCXT(date) ==
    [seconds |-> date \div 1000, millis |-> date % 1000]

\* new Date(dateStr).getTime()
dateToTimestamp(dateStr) == (dateStr.seconds * 1000) + dateStr.millis

\* new Map()
NoTimes == [sym \in {} |-> 0]

MaxOf(S) == CHOOSE x \in S : \A y \in S : y <= x

\* SELECT symbol, MAX(close_time) FROM table WHERE symbol = ANY($1)
\* GROUP BY symbol, as a Map
LatestTimes(rows, syms) ==
    [sym \in {x \in syms : \E r \in rows : r.symbol = x} |->
        MaxOf({r.close_time : r \in {x \in rows : x.symbol = sym}})]

\* a lookup whose failed query still hands out the rows' times
GetLatestTimesStale(marketType, result, failed) ==
    \/ /\ marketType \in dbTables
       /\ result = LatestTimes(db[marketType],
                               {CycleSymbols[i] : i \in 1..Len(CycleSymbols)})
       /\ failed \in {lookupFailed, TRUE}
    \/ /\ marketType \notin dbTables
       /\ result = NoTimes
       /\ failed = lookupFailed

\* the outcomes of getLatestTimesForAllSymbols(symbols, exchangeName,
\* marketType): the query's rows, or an empty Map when the query fails
\* (as it does when the table does not exist)
GetLatestTimes(marketType, result, failed) ==
    \/ /\ marketType \in dbTables
       /\ result = LatestTimes(db[marketType],
                               {CycleSymbols[i] : i \in 1..Len(CycleSymbols)})
       /\ failed = lookupFailed
    \/ /\ marketType \notin dbTables
       /\ result = NoTimes
       /\ failed = lookupFailed
    \/ /\ marketType \in dbTables
       /\ result = NoTimes
       /\ failed = TRUE

\* the from argument of fetchOHLCVData for a symbol
ResolveFrom(symbol, spotTimes, perpTimes, nowMs) ==
    LET type == MarketTypeOf(symbol)
        latest == IF type = "spot" THEN spotTimes ELSE perpTimes
    IN  IF symbol \in DOMAIN latest
        THEN formatUnixDatetimeForCCXT(latest[symbol])
        ELSE formatUnixDatetimeForCCXT(nowMs - HISTORICAL_DATA_TO_KEEP_MS)

\* parseOHLCVData(ohlcvData, symbol, false): no candle is filtered
parseOHLCVDataKeepAll(ohlcvData, symbol, nowMs) ==
    [i \in 1..Len(ohlcvData) |->
        [symbol |-> symbol,
         open_time |-> ohlcvData[i][1],
         v |-> ohlcvData[i][2],
         close_time |-> ohlcvData[i][1] + OneMinuteMs]]

\* parseOHLCVData(ohlcvData, symbol) with filterCompleteCandles
parseOHLCVData(ohlcvData, symbol, nowMs) ==
    LET parsedData == [i \in 1..Len(ohlcvData) |->
                          [symbol |-> symbol,
                           open_time |-> ohlcvData[i][1],
                           v |-> ohlcvData[i][2],
                           close_time |-> ohlcvData[i][1] + OneMinuteMs]]
        Complete(item) == item.close_time <= nowMs
    IN  SelectSeq(parsedData, Complete)

\* the locals of a fetchOHLCVData call that has not started or is over
FetchCleared ==
    /\ initialData' = <<>>
    /\ maxLimit' = 0
    /\ timeframeInterval' = 0
    /\ totalLimit' = 0
    /\ numRequests' = 0
    /\ requests' = <<>>
    /\ reqIdx' = 1
    /\ retryCount' = 0
    /\ allData' = <<>>
    /\ processed' = 0
    /\ finalData' = <<>>
    /\ missingCandles' = 0
    /\ thrown' = NoError
    /\ calls' = <<>>
    /\ rlFails' = 0
    /\ pageWaits' = 0
    /\ pageLog' = <<>>
    /\ raised' = NoError

\* entering fetchOHLCVData(exchange, symbol, '1m', from) with toDate = null
FetchCall(from, nowMs) ==
    /\ fpc' = "probe"
    /\ since' = dateToTimestamp(from)
    /\ toTs' = nowMs
    /\ FetchCleared

\* await exchange.loadMarkets()
CycleLoadMarkets ==
    /\ cpc = "idle"
    /\ \/ /\ cpc' = "lookupSpot"
          /\ UNCHANGED caught
       \/ /\ cpc' = "done"
          /\ caught' = [kind |-> "LoadMarkets"]
    /\ UNCHANGED <<fetchAll, persistAll, cronVars, now, symIdx,
                   latestSpotSymbolsTime, latestPerpSymbolsTime, fromDate,
                   fetchLog, lookupFailed, failedAt>>

\* latestSpotSymbolsTime = await getLatestTimesForAllSymbols(..., 'swap')
CycleLookupSpot ==
    /\ cpc = "lookupSpot"
    /\ \E result \in {NoTimes, LatestTimes(db["swap"],
                               {CycleSymbols[i] : i \in 1..Len(CycleSymbols)})},
          failed \in BOOLEAN :
          /\ GetLatestTimes("swap", result, failed)
          /\ latestSpotSymbolsTime' = result
          /\ lookupFailed' = failed
    /\ cpc' = "lookupPerp"
    /\ UNCHANGED <<fetchAll, persistAll, cronVars, now, symIdx,
                   latestPerpSymbolsTime, fromDate, caught, fetchLog, failedAt>>

\* latestPerpSymbolsTime = await getLatestTimesForAllSymbols(..., 'spot')
CycleLookupPerp ==
    /\ cpc = "lookupPerp"
    /\ \E result \in {NoTimes, LatestTimes(db["spot"],
                               {CycleSymbols[i] : i \in 1..Len(CycleSymbols)})},
          failed \in BOOLEAN :
          /\ GetLatestTimes("spot", result, failed)
          /\ latestPerpSymbolsTime' = result
          /\ lookupFailed' = failed
    /\ cpc' = "loop"
    /\ UNCHANGED <<fetchAll, persistAll, cronVars, now, symIdx,
                   latestSpotSymbolsTime, fromDate, caught, fetchLog, failedAt>>

\* the for loop's test, the resume point and the call of fetchOHLCVData
CycleNext ==
    /\ cpc = "loop"
    /\ IF symIdx <= Len(CycleSymbols)
       THEN LET symbol == CycleSymbols[symIdx]
                from == ResolveFrom(symbol, latestSpotSymbolsTime,
                                    latestPerpSymbolsTime, now)
            IN  /\ fromDate' = from
                /\ FetchCall(from, now)
                /\ fetchLog' = Append(fetchLog, symbol)
                /\ cpc' = "fetching"
       ELSE /\ cpc' = "done"
            /\ UNCHANGED <<fetchVars, histVars, fromDate, fetchLog>>
    /\ UNCHANGED <<exVars, persistAll, cronVars, now, symIdx,
                   latestSpotSymbolsTime, latestPerpSymbolsTime, caught,
                   lookupFailed, failedAt>>

\* fetchOHLCVData returned (its locals are gone): parse, then call
\* persistOHLCVInBatches
CycleFetched ==
    /\ cpc = "fetching"
    /\ fpc = "returned"
    /\ PersistCall(parseOHLCVData(finalData, CycleSymbols[symIdx], now),
                   MarketTypeOf(CycleSymbols[symIdx]))
    /\ cpc' = "persisting"
    /\ fpc' = "idle"
    /\ since' = 0
    /\ toTs' = 0
    /\ FetchCleared
    /\ UNCHANGED <<exVars, dbVars, pgVars, upserts, lastBatch, lastType,
                   dbBefore, repeated, cronVars, now, symIdx,
                   latestSpotSymbolsTime, latestPerpSymbolsTime, fromDate,
                   caught, fetchLog, lookupFailed, failedAt>>

\* a handler that persists the pages fetched before the failure
CycleFetchThrewPersistPages ==
    /\ cpc = "fetching"
    /\ fpc = "threw"
    /\ caught' = thrown
    /\ failedAt' = symIdx
    /\ PersistCall(parseOHLCVData(SortByTs(allData), CycleSymbols[symIdx], now),
                   MarketTypeOf(CycleSymbols[symIdx]))
    /\ cpc' = "persisting"
    /\ UNCHANGED <<fetchAll, dbVars, pgVars, upserts, lastBatch, lastType,
                   dbBefore, repeated, cronVars, now, symIdx,
                   latestSpotSymbolsTime, latestPerpSymbolsTime, fromDate,
                   fetchLog, lookupFailed>>

\* fetchOHLCVData threw: the catch around the loop logs it, the cycle is over
CycleFetchThrew ==
    /\ cpc = "fetching"
    /\ fpc = "threw"
    /\ caught' = thrown
    /\ failedAt' = symIdx
    /\ cpc' = "done"
    /\ UNCHANGED <<fetchAll, persistAll, cronVars, now, symIdx,
                   latestSpotSymbolsTime, latestPerpSymbolsTime, fromDate,
                   fetchLog, lookupFailed>>

\* persistOHLCVInBatches returned (its locals are gone): log the symbol, i++
CyclePersisted ==
    /\ cpc = "persisting"
    /\ ppc = "returned"
    /\ symIdx' = symIdx + 1
    /\ cpc' = "loop"
    /\ ppc' = "idle"
    /\ pdata' = <<>>
    /\ pIdx' = 0
    /\ qBatch' = NoBatch
    /\ UNCHANGED <<fetchAll, dbVars, qpc, qType, qAttempt, pType, ensureAttempt,
                   outerAttempt, writeHist, cronVars, now,
                   latestSpotSymbolsTime, latestPerpSymbolsTime, fromDate,
                   caught, fetchLog, lookupFailed, failedAt>>

\* persistOHLCVInBatches threw (ensureTableExists gave up): the same catch
CyclePersistThrew ==
    /\ cpc = "persisting"
    /\ ppc = "threw"
    /\ caught' = [kind |-> "Storage"]
    /\ failedAt' = symIdx
    /\ cpc' = "done"
    /\ UNCHANGED <<fetchAll, persistAll, cronVars, now, symIdx,
                   latestSpotSymbolsTime, latestPerpSymbolsTime, fromDate,
                   fetchLog, lookupFailed>>

CycleNotStarted ==
    /\ cpc = "idle"
    /\ symIdx = 1
    /\ latestSpotSymbolsTime = NoTimes
    /\ latestPerpSymbolsTime = NoTimes
    /\ fromDate = formatUnixDatetimeForCCXT(0)
    /\ caught = NoError
    /\ fetchLog = <<>>
    /\ lookupFailed = FALSE
    /\ failedAt = 0

CycleIdle ==
    /\ now = 0
    /\ CycleNotStarted

---------------------------------------------------------------------------
(* cronSyncData.onTick *)

\* env.EXCHANGE_NAMES, filtered by ccxt.exchanges
ExchangeNames == <<"binance", "hyperliquid", "kraken">>

\* number of trigger firings considered
MaxTicks == 3

Ticks == 1..MaxTicks

\* the trigger fires: onTick runs up to its first await, or, when syncing is
\* set, skips the body and runs the finally block
TickFire ==
    /\ fired < MaxTicks
    /\ fired' = fired + 1
    /\ IF ~syncing
       THEN /\ syncing' = TRUE
            /\ tickPc' = [tickPc EXCEPT ![fired + 1] = "cycle"]
            /\ tickEx' = [tickEx EXCEPT ![fired + 1] = 1]
       ELSE /\ syncing' = FALSE
            /\ tickPc' = [tickPc EXCEPT ![fired + 1] = "skipped"]
            /\ UNCHANGED tickEx
    /\ UNCHANGED <<fetchAll, persistAll, cycleVars>>

\* await fetchExchangeOHLCV(exchangeNames[i]) returned: i++, the loop's test,
\* and after the last exchange the finally block
TickExchangeDone(t) ==
    /\ tickPc[t] = "cycle"
    /\ IF tickEx[t] < Len(ExchangeNames)
       THEN /\ tickEx' = [tickEx EXCEPT ![t] = @ + 1]
            /\ UNCHANGED <<tickPc, syncing>>
       ELSE /\ tickPc' = [tickPc EXCEPT ![t] = "ended"]
            /\ syncing' = FALSE
            /\ UNCHANGED tickEx
    /\ UNCHANGED <<fired, fetchAll, persistAll, cycleVars>>

\* a handler without the finally block: the flag stays set after an error
TickExchangeThrewNoFinally(t) ==
    /\ tickPc[t] = "cycle"
    /\ tickPc' = [tickPc EXCEPT ![t] = "failed"]
    /\ UNCHANGED <<syncing, tickEx, fired, fetchAll, persistAll, cycleVars>>

\* await fetchExchangeOHLCV(exchangeNames[i]) rejected (it throws outside its
\* own try block): catch, then the finally block
TickExchangeThrew(t) ==
    /\ tickPc[t] = "cycle"
    /\ tickPc' = [tickPc EXCEPT ![t] = "failed"]
    /\ syncing' = FALSE
    /\ UNCHANGED <<tickEx, fired, fetchAll, persistAll, cycleVars>>

CronIdle ==
    /\ syncing = FALSE
    /\ tickPc = [t \in Ticks |-> "waiting"]
    /\ tickEx = [t \in Ticks |-> 0]
    /\ fired = 0
---------------------------------------------------------------------------
(* Specification of one run of fetchOHLCVData against any upstream series *)

InitFetch ==
    /\ PersistIdle
    /\ CycleIdle
    /\ CronIdle
    /\ market \in SUBSET (0..MaxT)
    /\ exLimit \in 2..MaxExLimit
    /\ \E from \in 0..MaxSince, endTs \in 0..(MaxT + 1) : FetchStart(from, endTs)

NextFetch ==
    \/ FetchProbe
    \/ FetchPage
    \/ FetchBackoff
    \/ FetchAggregate

SpecFetch == InitFetch /\ [][NextFetch]_vars

---------------------------------------------------------------------------
(* Specification of persistToPostgres called twice with the same batch, on
   any table *)

\* the rows parseOHLCVData makes for a symbol: close_time = timestamp + 60000
ItemsUpTo(sym, maxMinute) ==
    {[symbol |-> sym, open_time |-> k * OneMinuteMs, v |-> v,
      close_time |-> (k * OneMinuteMs) + OneMinuteMs] :
        k \in 0..maxMinute, v \in Vals}

Items(sym) == ItemsUpTo(sym, MaxOpenMinute)

SeqsUpTo(S, n) == UNION {[1..k -> S] : k \in 0..n}

UpsertItems == UNION {ItemsUpTo(sym, MaxUpsertMinute) : sym \in Symbols}

\* the tables earlier upserts can have left: at most one row per key
UpsertTables ==
    {rows \in SUBSET UpsertItems :
        \A r1, r2 \in rows : Key(r1) = Key(r2) => r1 = r2}

\* the caller: persistToPostgres(data, ...) once, and then once more
UpsertInvoke ==
    /\ ppc = "idle"
    /\ qpc \in {"idle", "ok", "threw"}
    /\ upserts < 2
    /\ PersistToPostgresCall(pdata, pType)
    /\ upserts' = upserts + 1
    /\ UNCHANGED <<dbVars, persistVars, ensured, batchLog, lastBatch, lastType,
                   dbBefore, repeated>>
    /\ UNCHANGED <<fetchAll, cycleVars, cronVars>>

InitUpsert ==
    /\ FetchIdle
    /\ CycleIdle
    /\ CronIdle
    /\ pdata \in SeqsUpTo(UpsertItems, MaxBatch)
    /\ pType \in MarketTypes
    /\ \E rows \in UpsertTables :
          db = [t \in MarketTypes |-> IF t = pType THEN rows ELSE {}]
    /\ dbTables = MarketTypes
    /\ qpc = "idle"
    /\ qBatch = NoBatch
    /\ qType = "spot"
    /\ qAttempt = 0
    /\ ppc = "idle"
    /\ pIdx = 0
    /\ ensureAttempt = 0
    /\ outerAttempt = 0
    /\ ensured = 0
    /\ batchLog = <<>>
    /\ upserts = 0
    /\ lastBatch = NoBatch
    /\ lastType = "spot"
    /\ dbBefore = {}
    /\ repeated = FALSE

NextUpsert ==
    \/ UpsertInvoke
    \/ PersistToPostgresQuery

SpecUpsert == InitUpsert /\ [][NextUpsert]_vars

---------------------------------------------------------------------------
(* Specification of one call of persistOHLCVInBatches for one symbol *)

PersistInvoke ==
    /\ ppc = "idle"
    /\ \E sym \in Symbols, marketType \in MarketTypes :
          \E data \in SeqsUpTo(Items(sym), MaxData) :
             PersistCall(data, marketType)
    /\ UNCHANGED <<dbVars, pgVars, upserts, lastBatch, lastType, dbBefore, repeated>>
    /\ UNCHANGED <<fetchAll, cycleVars, cronVars>>

InitPersist ==
    /\ FetchIdle
    /\ PersistIdle
    /\ CycleIdle
    /\ CronIdle

NextPersist ==
    \/ PersistInvoke
    \/ PersistEnsure
    \/ PersistSlice
    \/ PersistBatchOk
    \/ PersistBatchFailed
    \/ PersistToPostgresQuery

SpecPersist == InitPersist /\ [][NextPersist]_vars

---------------------------------------------------------------------------
(* Specification of the slicing step of persistOHLCVInBatches on any data,
   with a batch size that lets a slice hold a repeated row between others *)

WideBatchSize == 3   \* env.PERSISTENCE_BATCH_SIZE of this specification
MaxWideData == 4     \* the data hold at most MaxWideData candles

\* the slice and the first persistToPostgres of the batch at offset i
PersistSliceWide ==
    /\ ppc = "slice"
    /\ pIdx < Len(pdata)
    /\ ppc' = "upsert"
    /\ outerAttempt' = 0
    /\ PersistToPostgresCall(BatchOf(pdata, pIdx, WideBatchSize), pType)
    /\ UNCHANGED <<dbVars, pdata, pType, pIdx, ensureAttempt, writeHist>>
    /\ UNCHANGED <<fetchAll, cycleVars, cronVars>>

\* the loop has reached an offset i, the table exists
InitWideSlice ==
    /\ FetchIdle
    /\ CycleIdle
    /\ CronIdle
    /\ \E sym \in Symbols :
          pdata \in SeqsUpTo(Items(sym), MaxWideData) \ {<<>>}
    /\ pType \in MarketTypes
    /\ pIdx \in {i \in 0..(Len(pdata) - 1) : i % WideBatchSize = 0}
    /\ db = [t \in MarketTypes |-> {}]
    /\ dbTables = {pType}
    /\ qpc = "idle"
    /\ qBatch = NoBatch
    /\ qType = "spot"
    /\ qAttempt = 0
    /\ ppc = "slice"
    /\ ensureAttempt = 0
    /\ outerAttempt = 0
    /\ ensured = 1
    /\ batchLog = <<>>
    /\ upserts = 0
    /\ lastBatch = NoBatch
    /\ lastType = "spot"
    /\ dbBefore = {}
    /\ repeated = FALSE

NextWideSlice == PersistSliceWide

SpecWideSlice == InitWideSlice /\ [][NextWideSlice]_vars

---------------------------------------------------------------------------
(* Specification of the aggregation of fetchOHLCVData on any fetched pages *)

MaxMergeT   == 2    \* timestamps of the fetched candles range over 0..MaxMergeT
MaxMergeLen == 3    \* the pages hold at most MaxMergeLen candles together
MaxMergeInterval == 2   \* the probed interval ranges over 1..MaxMergeInterval

MergeCandles == {<<t, v>> : t \in 0..MaxMergeT, v \in Vals}

InitMerge ==
    /\ PersistIdle
    /\ CycleIdle
    /\ CronIdle
    /\ market = {}
    /\ exLimit = 2
    /\ fpc = "aggregate"
    /\ since = 0
    /\ toTs = 0
    /\ initialData = <<>>
    /\ maxLimit = 0
    /\ timeframeInterval \in 1..MaxMergeInterval
    /\ totalLimit \in (-1)..(MaxMergeLen + 1)
    /\ numRequests = 0
    /\ requests = <<>>
    /\ reqIdx = 1
    /\ retryCount = 0
    /\ allData \in SeqsUpTo(MergeCandles, MaxMergeLen)
    /\ processed = 0
    /\ finalData = <<>>
    /\ missingCandles = 0
    /\ thrown = NoError
    /\ calls = <<>>
    /\ rlFails = 0
    /\ pageWaits = 0
    /\ pageLog = <<>>
    /\ raised = NoError

NextMerge == FetchAggregate

SpecMerge == InitMerge /\ [][NextMerge]_vars

---------------------------------------------------------------------------
(* Specification of one cycle of fetchExchangeOHLCV, on the storage earlier
   cycles have left *)

\* the minute the cycle runs in
CycleNowMinute == 3

\* earlier cycles have stored up to MaxPrior candles per symbol
MaxPrior == 2

MinuteGrid(from, to) == {k * OneMinuteMs : k \in from..to}

\* the candles the exchange holds: the series up to the running minute, only
\* the running minute's candle, or none
CycleMarkets ==
    {MinuteGrid(0, CycleNowMinute), MinuteGrid(CycleNowMinute, CycleNowMinute), {}}

PriorRows(sym, n) ==
    {[symbol |-> sym, open_time |-> k * OneMinuteMs, v |-> 1,
      close_time |-> (k * OneMinuteMs) + OneMinuteMs] : k \in 0..(n - 1)}

InitCycle ==
    /\ FetchNotStarted
    /\ PersistNotStarted
    /\ CycleNotStarted
    /\ CronIdle
    /\ now = CycleNowMinute * OneMinuteMs
    /\ market \in CycleMarkets
    /\ exLimit = 2
    /\ \E nSpot, nSwap \in 0..MaxPrior :
          db = [t \in MarketTypes |->
                   IF t = "spot" THEN PriorRows(CycleSymbols[1], nSpot)
                   ELSE PriorRows(CycleSymbols[2], nSwap)]
    /\ dbTables = {t \in MarketTypes : db[t] # {}}

NextCycle ==
    \/ CycleLoadMarkets
    \/ CycleLookupSpot
    \/ CycleLookupPerp
    \/ CycleNext
    \/ CycleFetched
    \/ CycleFetchThrew
    \/ CyclePersisted
    \/ CyclePersistThrew
    \/ FetchProbe
    \/ FetchPage
    \/ FetchBackoff
    \/ FetchAggregate
    \/ PersistEnsure
    \/ PersistSlice
    \/ PersistBatchOk
    \/ PersistBatchFailed
    \/ PersistToPostgresQuery

SpecCycle == InitCycle /\ [][NextCycle]_vars

---------------------------------------------------------------------------
(* Specification of the cycle that follows, one minute later, a cycle in
   which any batches of the first symbol were skipped *)

\* the rows the earlier cycle (run at minute CycleNowMinute) handed to
\* persistOHLCVInBatches for a symbol: the complete candles of its lookback
\* window
EarlierRows(sym) ==
    [i \in 1..Min(LookbackMinutes, CycleNowMinute) |->
        LET k == (CycleNowMinute - Min(LookbackMinutes, CycleNowMinute)) + (i - 1)
        IN  [symbol |-> sym, open_time |-> k * OneMinuteMs, v |-> 1,
             close_time |-> (k * OneMinuteMs) + OneMinuteMs]]

\* the offsets of its batches
EarlierBatchStarts(sym) ==
    {i \in 0..(Len(EarlierRows(sym)) - 1) : i % BatchSize = 0}

\* the rows stored when the batches at the offsets in persisted were written
\* and the others skipped
RowsOfBatches(sym, persisted) ==
    UNION {{BatchAt(EarlierRows(sym), i)[n] :
               n \in 1..Len(BatchAt(EarlierRows(sym), i))} : i \in persisted}

InitLaterCycle ==
    /\ FetchNotStarted
    /\ PersistNotStarted
    /\ CycleNotStarted
    /\ CronIdle
    /\ now = (CycleNowMinute + 1) * OneMinuteMs
    /\ market = MinuteGrid(0, CycleNowMinute + 1)
    /\ exLimit = 2
    /\ \E persisted \in SUBSET EarlierBatchStarts(CycleSymbols[1]) :
          db = [t \in MarketTypes |->
                   IF t = "spot"
                   THEN RowsOfBatches(CycleSymbols[1], persisted)
                   ELSE RowsOfBatches(CycleSymbols[2],
                                      EarlierBatchStarts(CycleSymbols[2]))]
    /\ dbTables = MarketTypes

SpecLaterCycle == InitLaterCycle /\ [][NextCycle]_vars

---------------------------------------------------------------------------
(* Specification of the first cycle on an empty database when the exchange's
   series has a gap *)

\* the series up to the running minute with one candle inside it missing
GapMarkets ==
    {MinuteGrid(0, CycleNowMinute) \ {k * OneMinuteMs} :
        k \in 1..(CycleNowMinute - 1)}

InitGapCycle ==
    /\ FetchNotStarted
    /\ PersistNotStarted
    /\ CycleNotStarted
    /\ CronIdle
    /\ now = CycleNowMinute * OneMinuteMs
    /\ market \in GapMarkets
    /\ exLimit = 2
    /\ db = [t \in MarketTypes |-> {}]
    /\ dbTables = {}

SpecGapCycle == InitGapCycle /\ [][NextCycle]_vars

\* every awaited call of the cycle (exchange, storage, sleep) settles
SpecGapCycleLive == SpecGapCycle /\ WF_vars(NextCycle)

---------------------------------------------------------------------------
(* Specification of a cycle during which the wall clock advances *)

\* minutes the clock may advance while the cycle runs
MaxClockAdvance == 1

\* Date.now() moves on by a minute while the cycle awaits a call
ClockTick ==
    /\ cpc \in {"lookupSpot", "lookupPerp", "loop", "fetching", "persisting"}
    /\ now < (CycleNowMinute + MaxClockAdvance) * OneMinuteMs
    /\ now' = now + OneMinuteMs
    /\ UNCHANGED <<fetchAll, persistAll, cronVars, cpc, symIdx,
                   latestSpotSymbolsTime, latestPerpSymbolsTime, fromDate,
                   caught, fetchLog, lookupFailed, failedAt>>

NextClockCycle ==
    \/ NextCycle
    \/ ClockTick

SpecClockCycle == InitGapCycle /\ [][NextClockCycle]_vars

---------------------------------------------------------------------------
(* Specification of the trigger handler under any firings of the trigger *)

InitCron ==
    /\ FetchIdle
    /\ PersistIdle
    /\ CycleIdle
    /\ CronIdle

NextCron ==
    \/ TickFire
    \/ \E t \in Ticks : TickExchangeDone(t)
    \/ \E t \in Ticks : TickExchangeThrew(t)

SpecCron == InitCron /\ [][NextCron]_vars

\* every awaited fetchExchangeOHLCV call of a running handler settles
SpecCronLive ==
    /\ SpecCron
    /\ \A t \in Ticks : WF_vars(TickExchangeDone(t) \/ TickExchangeThrew(t))

---------------------------------------------------------------------------
(* Observations on a run of fetchOHLCVData, used by the properties below *)

RECURSIVE ConcatChunks(_)
ConcatChunks(log) ==
    IF log = <<>> THEN <<>> ELSE Head(log).chunk \o ConcatChunks(Tail(log))

RECURSIVE SumAttempts(_)
SumAttempts(log) ==
    IF log = <<>> THEN 0 ELSE (Head(log).fails + 1) + SumAttempts(Tail(log))

\* how many fetchOHLCV calls after the probe asked for the start time s
CallsFor(s) == Cardinality({k \in 2..Len(calls) : calls[k].since = s})

\* how many of them were answered with a rate-limit signal
RateLimitedFor(s) ==
    Cardinality({k \in 2..Len(calls) : calls[k].since = s /\ calls[k].out = "ratelimit"})

Planned == maxLimit > 0

\* the error text carries neither 'rate limit' nor '429'
NotRateLimitSignal(e) == e.kind = "upstream" /\ ~e.rateLimitText /\ ~e.has429

---------------------------------------------------------------------------
(* C6: a request that is rate limited on its first r < 3 attempts and then
   succeeds lets the run go on: every request that succeeded did so after
   fewer than 3 rate-limit errors and exactly as many back-off waits as
   errors, the collected data is exactly the chunks of the successful
   attempts, each once and in order, and the run fails for rate limiting
   only when the request at hand was rate limited 3 times. *)
C6_RetryThenSuccess ==
    /\ \A k \in 1..Len(pageLog) :
          /\ pageLog[k].fails < maxRetries
          /\ pageLog[k].waits = pageLog[k].fails
          /\ pageLog[k].since = requests[k]
    /\ allData = ConcatChunks(pageLog)
    /\ processed = Len(pageLog)
    /\ (fpc = "threw" /\ thrown.kind = "RateLimitRetries")
          => (rlFails = maxRetries /\ pageWaits = maxRetries)
    /\ fpc = "returned" => Len(pageLog) = Len(requests)

C6_Witness ==
    /\ fpc = "returned"
    /\ \E k \in 1..Len(pageLog) :
          /\ pageLog[k].fails = 2
          /\ pageLog[k].waits = 2
          /\ pageLog[k].chunk # <<>>
          /\ k < Len(pageLog)

(* C7: a request is attempted at most 3 times; when all 3 attempts are rate
   limited the run is over: after the third back-off it has thrown the
   retries-exhausted error, the last call made is the third attempt of that
   request, no later request of the plan was called, and nothing is
   returned. *)
C7_RateLimitExhausted ==
    \A i \in 1..Len(requests) :
        /\ CallsFor(requests[i]) <= maxRetries
        /\ RateLimitedFor(requests[i]) = maxRetries =>
              /\ i = reqIdx
              /\ fpc \in {"backoff", "threw"}
              /\ calls[Len(calls)].since = requests[i]
              /\ \A j \in (i + 1)..Len(requests) : CallsFor(requests[j]) = 0
              /\ Len(pageLog) = i - 1
              /\ finalData = <<>>
              /\ fpc = "threw" => thrown = [kind |-> "RateLimitRetries"]

C7_Witness ==
    /\ fpc = "threw"
    /\ thrown.kind = "RateLimitRetries"
    /\ reqIdx = 2
    /\ Len(requests) >= 3
    /\ allData # <<>>

(* C8: an upstream error whose text is not a rate-limit signal is never
   retried: the run has thrown that very error, no back-off wait followed it,
   and the failing call is the last call of the run (the calls made are the
   probe, the attempts of the requests that succeeded, and the attempts of
   the request at hand). *)
C8_OtherErrorNotRetried ==
    /\ NotRateLimitSignal(raised) =>
          /\ fpc = "threw"
          /\ thrown = raised
          /\ pageWaits = rlFails
          /\ retryCount = rlFails
          /\ Len(calls) = IF Planned
                          THEN 1 + SumAttempts(pageLog) + rlFails + 1
                          ELSE 1
    /\ (fpc = "threw" /\ thrown.kind = "upstream") => thrown = raised

C8_Witness ==
    /\ fpc = "threw"
    /\ NotRateLimitSignal(thrown)
    /\ rlFails = 2
    /\ Len(pageLog) >= 1

(* C9 (as amended): for a probe of P >= 2 candles with spacing I > 0 and
   first candle time F, and any end time E, totalLimit is ceil((E - F) / I),
   the plan holds max(0, ceil(totalLimit / P)) requests, and request i
   (counted from 0) starts at since + i * P * I.  The ceilings are stated as
   least upper bounds, not through the planner's own operators. *)
C9_PlanCount ==
    /\ Planned =>
          LET F == initialData[1][1]
              I == timeframeInterval
              P == maxLimit
              n == Len(requests)
          IN  /\ P = Len(initialData)
              /\ P >= 2
              /\ I > 0
              /\ totalLimit * I >= toTs - F
              /\ (totalLimit - 1) * I < toTs - F
              /\ n * P >= totalLimit
              /\ n > 0 => (n - 1) * P < totalLimit
              /\ \A i \in 1..n : requests[i] = since + ((i - 1) * P * I)
    /\ PlanTotalLimit(10000 * 60000, 0, 60000) = 10000
    /\ PlanNumRequests(10000, 500) = 20
    /\ Len(PlanRequests(0, PlanNumRequests(10000, 500), 500, 60000)) = 20

C9_Witness ==
    /\ Planned
    /\ Len(requests) = 2
    /\ totalLimit % maxLimit # 0
    /\ (toTs - initialData[1][1]) % timeframeInterval # 0

(* C9 as stated: the plan holds exactly ceil(totalLimit / P) requests, for
   every end time. *)
C9_Original ==
    Planned =>
        /\ Len(requests) * maxLimit >= totalLimit
        /\ (Len(requests) - 1) * maxLimit < totalLimit

(* C10: the windows [s_i, s_i + P * I) of the planned requests cover
   [since, end) contiguously: the first starts at since, consecutive starts
   are at most P * I apart, and the last window reaches the end time (asked
   only of plans that need at least one candle). *)
C10_PlanCoversRange ==
    Planned =>
        LET W == maxLimit * timeframeInterval
            n == Len(requests)
        IN  /\ n > 0 => requests[1] = since
            /\ \A i \in 1..(n - 1) : requests[i + 1] - requests[i] <= W
            /\ (toTs > since /\ totalLimit > 0) => (n > 0 /\ requests[n] + W >= toTs)

---------------------------------------------------------------------------
(* Observations on persistOHLCVInBatches and persistToPostgres *)

RowsOf(data) == {data[i] : i \in 1..Len(data)}

UniqueKeys(rows) == \A r1, r2 \in rows : Key(r1) = Key(r2) => r1 = r2

NumBatches(data) == CeilDiv(Len(data), BatchSize)

\* a batch logged after the k-th one was persisted and wrote the key too
OverwrittenLater(k, key) ==
    \E k2 \in (k + 1)..Len(batchLog) :
        /\ batchLog[k2].out = "persisted"
        /\ key \in Keys(RowsOf(batchLog[k2].batch))

(* C4: a batch of persistOHLCVInBatches whose retry budget is exhausted is
   skipped and nothing else: the batches are taken in order, once the call has
   returned every one of the N batches was attempted, the rows of every batch
   whose write succeeded are stored (with the batch's values unless a later
   persisted batch wrote the same key), and the call never throws once the
   table is ensured. *)
C4_FailedBatchSkipped ==
    /\ \A k \in 1..Len(batchLog) :
          /\ batchLog[k].start = (k - 1) * BatchSize
          /\ batchLog[k].batch = BatchAt(pdata, batchLog[k].start)
          /\ (ppc = "returned" /\ batchLog[k].out = "persisted") =>
                \A row \in RowsOf(batchLog[k].batch) :
                    \E r \in db[pType] :
                        /\ Key(r) = Key(row)
                        /\ r.close_time = row.close_time
                        /\ (r.v = row.v \/ OverwrittenLater(k, Key(row)))
    /\ ppc = "returned" => Len(batchLog) = NumBatches(pdata)
    /\ ppc = "threw" => (ensured = 0 /\ batchLog = <<>>)
    /\ (\E k \in 1..Len(batchLog) : batchLog[k].out = "skipped") => ppc # "threw"

C4_Witness ==
    /\ ppc = "returned"
    /\ Len(batchLog) = 2
    /\ batchLog[1].out = "skipped"
    /\ batchLog[2].out = "persisted"
    /\ batchLog[2].batch # <<>>
    /\ RowsOf(batchLog[2].batch) \subseteq db[pType]
    /\ RowsOf(batchLog[1].batch) \cap db[pType] = {}

(* C5: persistToPostgres is an idempotent upsert: every table holds at most
   one row per (symbol, open_time); after a successful write each row of the
   batch is stored once with the batch's values, rows the table already held
   keep their key columns and close_time, rows with other keys are untouched;
   and a second successful write of the same batch into the same table leaves
   the table as the first one left it. *)
C5_UpsertIdempotent ==
    /\ \A t \in MarketTypes : UniqueKeys(db[t])
    /\ (qpc = "ok" /\ Len(qBatch) > 0) =>
          /\ lastBatch = qBatch /\ lastType = qType
          /\ \A row \in RowsOf(qBatch) :
                /\ Cardinality({r \in db[qType] : Key(r) = Key(row)}) = 1
                /\ \A r \in db[qType] : Key(r) = Key(row) => r.v = row.v
          /\ \A old \in dbBefore :
                \E r \in db[qType] :
                    /\ Key(r) = Key(old)
                    /\ r.close_time = old.close_time
                    /\ Key(old) \notin Keys(RowsOf(qBatch)) => r = old
          /\ Keys(db[qType]) = Keys(dbBefore) \cup Keys(RowsOf(qBatch))
    /\ repeated => db[lastType] = dbBefore

C5_Witness ==
    /\ repeated
    /\ upserts = 2
    /\ qpc = "ok"
    /\ Len(lastBatch) >= 1
    /\ \E r \in db[lastType] : Key(r) \notin Keys(RowsOf(lastBatch))

---------------------------------------------------------------------------
(* Observations on the trigger handler and on a cycle *)

CyclesRunning == {t \in Ticks : tickPc[t] = "cycle"}

\* the rows the partition of a symbol's market type holds for the symbol
PartitionRows(symbol) ==
    {r \in db[MarketTypeOf(symbol)] : r.symbol = symbol}

\* the start time a run resumed from the partition's cursor begins at
ResumePoint(symbol) ==
    IF PartitionRows(symbol) # {}
    THEN MaxOf({r.close_time : r \in PartitionRows(symbol)})
    ELSE now - HISTORICAL_DATA_TO_KEEP_MS

(* C1: whatever the trigger firings, at most one sync cycle is executing at
   any time: no onTick call starts a cycle while the cycle of an earlier call
   has not ended. *)
C1_AtMostOneCycle == Cardinality(CyclesRunning) <= 1

(* C2: a fatal failure while syncing symbol s_k does not abort the cycle for
   the later symbols: when the cycle is over, fetchOHLCVData has been called
   for every symbol after s_k. *)
C2_FailureIsolated ==
    (cpc = "done" /\ failedAt # 0) =>
        \A j \in (failedAt + 1)..Len(CycleSymbols) :
            \E k \in 1..Len(fetchLog) : fetchLog[k] = CycleSymbols[j]

(* C3: while a symbol is being fetched (and the cursor lookups of the cycle
   did not fail), the start time of the run is the latest close_time the
   symbol's own partition holds for it, or now minus the lookback window when
   the partition holds no row for it. *)
C3_ResumeFromCursor ==
    (cpc = "fetching" /\ ~lookupFailed) =>
        since = ResumePoint(CycleSymbols[symIdx])

---------------------------------------------------------------------------
(* C11: when the plan needs no candle (totalLimit <= 0, the probed series
   starts at or after the end time), the run holds no page request, calls the
   exchange for the probe only, throws nothing and returns an empty result. *)
C11_NothingNeeded ==
    (Planned /\ totalLimit <= 0) =>
        /\ requests = <<>>
        /\ Len(calls) = 1
        /\ pageLog = <<>>
        /\ allData = <<>>
        /\ fpc \in {"aggregate", "returned"}
        /\ thrown = NoError
        /\ finalData = <<>>

C11_Witness ==
    /\ fpc = "returned"
    /\ Planned
    /\ totalLimit < 0
    /\ since >= toTs
    /\ Len(initialData) >= 2

(* C12: the probe is one call at since with the limit LIMIT; a response of no
   candle makes the run throw the no-data error, a response of one candle the
   not-enough-data error, and in both cases the run is over after that one
   call: no plan, no page request, no wait. *)
C12_ProbeFailures ==
    /\ fpc # "probe" =>
          /\ Len(calls) >= 1
          /\ calls[1].since = since
    /\ (Len(calls) >= 1 /\ calls[1].out = "ok") =>
          /\ Len(initialData) = 0 =>
                (fpc = "threw" /\ thrown = [kind |-> "NoData"])
          /\ Len(initialData) = 1 =>
                (fpc = "threw" /\ thrown = [kind |-> "NotEnoughData"])
          /\ Len(initialData) <= 1 =>
                /\ Len(calls) = 1
                /\ ~Planned
                /\ requests = <<>>
                /\ pageLog = <<>>
                /\ pageWaits = 0 /\ retryCount = 0
                /\ finalData = <<>>
    /\ (fpc = "threw" /\ thrown.kind = "NoData") => Len(initialData) = 0
    /\ (fpc = "threw" /\ thrown.kind = "NotEnoughData") => Len(initialData) = 1

C12_Witness ==
    /\ fpc = "threw"
    /\ thrown = [kind |-> "NotEnoughData"]
    /\ Len(initialData) = 1
    /\ Cardinality(market) >= 2

---------------------------------------------------------------------------
(* Observations on the aggregation *)

TimestampsOf(data) == {data[k][1] : k \in 1..Len(data)}

\* the position of the first candle of data with timestamp t
FirstAt(data, t) ==
    CHOOSE k \in 1..Len(data) :
        /\ data[k][1] = t
        /\ \A k2 \in 1..(k - 1) : data[k2][1] # t

(* C13: whatever the fetched pages hold (overlapping, unsorted, repeated
   timestamps), the sequence fetchOHLCVData returns is strictly ascending by
   timestamp, so no two of its candles have the same timestamp, and every
   candle of it was fetched. *)
C13_StrictlyAscending ==
    fpc = "returned" =>
        /\ \A i \in 1..(Len(finalData) - 1) : finalData[i][1] < finalData[i + 1][1]
        /\ \A i \in 1..Len(finalData) :
              \E k \in 1..Len(allData) : allData[k] = finalData[i]

C13_Witness ==
    /\ fpc = "returned"
    /\ Len(finalData) >= 2
    /\ \E i, k \in 1..Len(allData) : i < k /\ allData[i][1] > allData[k][1]
    /\ \E i, k \in 1..Len(allData) : i < k /\ allData[i][1] = allData[k][1]

(* C14: of the candles fetched with the same timestamp the returned sequence
   holds the one fetched first; untrimmed, it holds as many candles as there
   are distinct timestamps, and two pages of 12 candles that share 10
   timestamps merge to 12 + 12 - 10 candles with the first page's values at
   the shared timestamps. *)
C14_FirstOccurrenceKept ==
    /\ fpc = "returned" =>
          /\ \A i \in 1..Len(finalData) :
                finalData[i] = allData[FirstAt(allData, finalData[i][1])]
          /\ totalLimit >= Len(allData) =>
                Len(finalData) = Cardinality(TimestampsOf(allData))
    /\ LET page1 == [i \in 1..12 |-> <<i, 1>>]
           page2 == [i \in 1..12 |-> <<i + 2, 2>>]
           merged == UniqueData(page1 \o page2)
       IN  /\ Len(merged) = (Len(page1) + Len(page2)) - 10
           /\ \A i \in 1..Len(merged) :
                 merged[i] = <<i, IF i <= 12 THEN 1 ELSE 2>>

C14_Witness ==
    /\ fpc = "returned"
    /\ \E i, k \in 1..Len(allData) :
          /\ i < k
          /\ allData[i][1] = allData[k][1]
          /\ allData[i][2] # allData[k][2]
          /\ \E n \in 1..Len(finalData) : finalData[n] = allData[i]
    /\ Len(finalData) = 2

---------------------------------------------------------------------------
(* Observations on the gap check *)

Deltas(data) == {data[i + 1][1] - data[i][1] : i \in 1..(Len(data) - 1)}

\* the spacing of the series the candles of data are taken from
SeriesInterval(data) == CHOOSE d \in Deltas(data) : \A e \in Deltas(data) : d <= e

\* data is a regular series of that spacing with candles removed from its
\* interior
RegularWithGaps(data) ==
    /\ Len(data) >= 2
    /\ SeriesInterval(data) > 0
    /\ \A e \in Deltas(data) : e % SeriesInterval(data) = 0

\* the number of candles removed from it
RECURSIVE RemovedFrom(_, _, _)
RemovedFrom(data, i, d) ==
    IF i > Len(data) THEN 0
    ELSE (((data[i][1] - data[i - 1][1]) \div d) - 1) + RemovedFrom(data, i + 1, d)

(* C15: when the returned sequence is a regular series with k candles removed
   from its interior, the missingCandles counter of the run equals k. *)
C15_GapCountExact ==
    (fpc = "returned" /\ RegularWithGaps(finalData)) =>
        missingCandles = RemovedFrom(finalData, 2, SeriesInterval(finalData))

(* C16: the returned sequence holds at most totalLimit candles and no candle
   at or after the end time of the run. *)
C16_TrimmedToRange ==
    fpc = "returned" =>
        /\ Len(finalData) <= Max(totalLimit, 0)
        /\ \A i \in 1..Len(finalData) : finalData[i][1] < toTs

---------------------------------------------------------------------------
(* C17: getLatestTimesForAllSymbols fails soft: a lookup on an absent table or
   with a failed query yields the empty Map and nothing is thrown to the
   cycle, which goes on to the symbol loop; a symbol without an entry in its
   Map is fetched from now minus the lookback window. *)
C17_LookupFailsSoft ==
    /\ cpc = "lookupPerp" =>
          /\ ("swap" \notin dbTables \/ lookupFailed) =>
                latestSpotSymbolsTime = NoTimes
          /\ caught = NoError
    /\ (cpc = "loop" /\ symIdx = 1) =>
          /\ "spot" \notin dbTables => latestPerpSymbolsTime = NoTimes
          /\ caught = NoError
    /\ (cpc \in {"loop", "fetching", "persisting", "done"} /\ lookupFailed) =>
          (latestSpotSymbolsTime = NoTimes \/ latestPerpSymbolsTime = NoTimes)
    /\ (cpc = "fetching" /\ latestSpotSymbolsTime = NoTimes
                         /\ latestPerpSymbolsTime = NoTimes) =>
          since = now - HISTORICAL_DATA_TO_KEEP_MS

C17_Witness ==
    /\ cpc = "fetching"
    /\ lookupFailed
    /\ db["spot"] # {} /\ db["swap"] # {}
    /\ latestSpotSymbolsTime = NoTimes
    /\ latestPerpSymbolsTime = NoTimes
    /\ since = now - HISTORICAL_DATA_TO_KEEP_MS
    /\ caught = NoError

---------------------------------------------------------------------------
(* Observations on the ensure step *)

\* the table is ensured once, and before anything is written
EnsuredBeforeUpsert ==
    /\ ensured <= 1
    /\ ppc \in {"slice", "upsert"} => (ensured = 1 /\ pType \in dbTables)
    /\ qpc = "query" => (ppc = "upsert" /\ ensured = 1 /\ qType \in dbTables)
    /\ (ppc # "idle" /\ batchLog # <<>>) => ensured = 1
    /\ (ppc = "returned" /\ pdata # <<>>) => ensured = 1
    /\ ppc = "ensure" => (ensured = 0 /\ batchLog = <<>> /\ qpc # "query")
    /\ ppc = "threw" => (ensured = 0 /\ batchLog = <<>>)

\* a step of ensureTableExists writes no row, starts no upsert, creates at
\* most the partition's table and leaves the tables alone when it exists
EnsureStepFrame ==
    ppc = "ensure" =>
        /\ db' = db
        /\ qpc' = qpc
        /\ dbTables \subseteq dbTables'
        /\ dbTables' \subseteq (dbTables \cup {pType})
        /\ pType \in dbTables => dbTables' = dbTables
        /\ ppc' = "slice" => pType \in dbTables'

(* C18: in a call of persistOHLCVInBatches with data the table of the
   partition is ensured exactly once and before the first upsert attempt, no
   upsert is attempted while the ensure step has not completed, and the
   ensure step on a table that exists changes neither tables nor rows. *)
C18_EnsuredOnceBeforeUpsert ==
    []EnsuredBeforeUpsert /\ [][EnsureStepFrame]_vars

C18_Witness ==
    /\ cpc = "persisting"
    /\ ppc = "upsert"
    /\ qpc = "query"
    /\ ensured = 1
    /\ batchLog = <<>>
    /\ \E r \in db[pType] : r.symbol = CycleSymbols[symIdx]

---------------------------------------------------------------------------
(* Observations on the order of the work of a cycle *)

\* the page requests that had succeeded before the k-th call of the run
SucceededBefore(k) == Cardinality({c \in 2..(k - 1) : calls[c].out = "ok"})

FetchRunning == fpc \in {"probe", "page", "backoff", "aggregate"}

PersistRunning == ppc \in {"ensure", "slice", "upsert"}

(* C19: the work of a cycle is sequential: every page call asks for the
   request that follows the requests already answered, so request i + 1 is
   called only after request i succeeded, and the start times asked for never
   decrease; a symbol is fetched only while nothing is being persisted and
   persisted only after its fetch is over, symbols are taken in order, and a
   batch is written only after every batch before it is done with. *)
C19_Sequential ==
    /\ \A k \in 2..Len(calls) :
          /\ SucceededBefore(k) + 1 <= Len(requests)
          /\ calls[k].since = requests[SucceededBefore(k) + 1]
    /\ \A k \in 2..(Len(calls) - 1) : calls[k].since <= calls[k + 1].since
    /\ \A i \in 1..(Len(requests) - 1) : requests[i] <= requests[i + 1]
    /\ FetchRunning => (cpc = "fetching" /\ ppc = "idle" /\ qpc # "query")
    /\ PersistRunning => (cpc = "persisting" /\ fpc = "idle")
    /\ qpc = "query" =>
          /\ ppc = "upsert"
          /\ qBatch = BatchAt(pdata, pIdx)
          /\ Len(batchLog) * BatchSize = pIdx
    /\ fetchLog = SubSeq(CycleSymbols, 1, Len(fetchLog))
    /\ cpc \in {"fetching", "persisting"} => Len(fetchLog) = symIdx
    /\ cpc = "loop" => Len(fetchLog) = symIdx - 1

C19_Witness ==
    /\ cpc = "persisting"
    /\ symIdx = 2
    /\ qpc = "query"
    /\ Len(batchLog) = 1
    /\ \E r \in db[MarketTypeOf(CycleSymbols[1])] :
          /\ r.symbol = CycleSymbols[1]
          /\ r.open_time >= MaxPrior * OneMinuteMs

---------------------------------------------------------------------------
(* Observations on the cycle after a cycle with skipped batches *)

\* the sync of the first symbol went through: cursors looked up, data
\* fetched, every batch persisted
FirstSymbolSynced ==
    /\ cpc = "persisting"
    /\ symIdx = 1
    /\ ppc = "returned"
    /\ ~lookupFailed
    /\ batchLog # <<>>
    /\ \A k \in 1..Len(batchLog) : batchLog[k].out = "persisted"

(* C20: once a later cycle has synced the symbol with upstream and storage
   healthy, every candle the earlier cycle had fetched for it is stored,
   whichever of its batches the earlier cycle skipped. *)
C20_SkippedBatchRefilled ==
    FirstSymbolSynced =>
        \A i \in 1..Len(EarlierRows(CycleSymbols[1])) :
            Key(EarlierRows(CycleSymbols[1])[i]) \in Keys(db["spot"])

---------------------------------------------------------------------------
(* Observations on the candles handed to persistOHLCVInBatches *)

\* the step in which fetchExchangeOHLCV parses the fetched candles and hands
\* them to persistOHLCVInBatches
HandedOver == cpc = "fetching" /\ cpc' = "persisting"

(* C21: every candle handed to the writer has close_time = open_time +
   interval, the interval being the one the run derived from the first two
   probed candles. *)
C21_CloseTimeFromProbeInterval ==
    [][HandedOver =>
         \A i \in 1..Len(pdata') :
             pdata'[i].close_time = pdata'[i].open_time + timeframeInterval]_vars

---------------------------------------------------------------------------
(* Observations on the stored rows over the steps of a cycle *)

\* SELECT MAX(close_time) of a symbol's rows; -1 stands for no row
CursorOf(rows, sym) ==
    IF \E r \in rows : r.symbol = sym
    THEN MaxOf({r.close_time : r \in {x \in rows : x.symbol = sym}})
    ELSE -1

\* the step is a pool.query of persistToPostgres on partition t that succeeded
UpsertStepOn(t) == qpc = "query" /\ qpc' = "ok" /\ qType = t

(* C22: in every step of a cycle, whatever fails, every stored key stays
   stored, no table disappears, the cursor MAX(close_time) of every symbol
   and partition does not decrease, and a partition's rows change only in a
   successful upsert on that partition. *)
C22_NeverDeletedCursorMonotone ==
    [][/\ dbTables \subseteq dbTables'
       /\ \A t \in MarketTypes :
             /\ Keys(db[t]) \subseteq Keys(db'[t])
             /\ \A sym \in Symbols :
                   CursorOf(db'[t], sym) >= CursorOf(db[t], sym)
             /\ db'[t] # db[t] => UpsertStepOn(t)]_vars

\* an upsert of the cycle rewrote a stored row and moved the cursor up
C22_Witness ==
    /\ cpc = "persisting"
    /\ lastBatch # <<>>
    /\ \E i \in 1..Len(lastBatch) : Key(lastBatch[i]) \in Keys(dbBefore)
    /\ CursorOf(dbBefore, lastBatch[1].symbol) >= 0
    /\ CursorOf(db[lastType], lastBatch[1].symbol)
          > CursorOf(dbBefore, lastBatch[1].symbol)

---------------------------------------------------------------------------
(* Observations on the batches handed to persistToPostgres *)

\* the batch of the current offset has been handed to persistToPostgres
BatchSubmitted == ppc = "upsert" /\ qpc = "query"

\* the positions of a slice whose (symbol, close_time) has not occurred at an
\* earlier position of the slice
FirstPositions(slice) ==
    {k \in 1..Len(slice) :
        \A j \in 1..(k - 1) :
            <<slice[j].symbol, slice[j].close_time>>
                # <<slice[k].symbol, slice[k].close_time>>}

\* the n-th of a set of positions, in ascending order
NthOf(S, n) == CHOOSE k \in S : Cardinality({j \in S : j <= k}) = n

\* close_time = open_time + 60000 for every candle
MinuteCandles(data) ==
    \A i \in 1..Len(data) : data[i].close_time = data[i].open_time + OneMinuteMs

(* C23: every batch handed to persistToPostgres consists of the rows of one
   contiguous slice of at most batchSize input candles, in input order,
   without the rows whose (symbol, close_time) occurred earlier in the slice
   (it is the slice itself when no row of it repeats); for candles with
   close_time = open_time + 60000 it holds no primary key twice. *)
C23_BatchIsDedupedSlice ==
    BatchSubmitted =>
        LET slice == SliceAt(pdata, pIdx, WideBatchSize)
            first == FirstPositions(slice)
        IN  /\ Len(slice) <= WideBatchSize
            /\ Len(qBatch) = Cardinality(first)
            /\ \A n \in 1..Len(qBatch) : qBatch[n] = slice[NthOf(first, n)]
            /\ first = 1..Len(slice) => qBatch = slice
            /\ MinuteCandles(pdata) => ~HasDupKeys(qBatch)

\* a batch was handed over whose slice held a repeated row between two rows
\* that are kept
C23_Witness ==
    /\ BatchSubmitted
    /\ LET slice == SliceAt(pdata, pIdx, WideBatchSize)
       IN  \E k \in 1..Len(slice) :
              /\ k \notin FirstPositions(slice)
              /\ \E m \in FirstPositions(slice) : m > k
    /\ MinuteCandles(pdata)

\* C23 as stated: the batch is itself a contiguous slice of the input
C23_Original ==
    BatchSubmitted =>
        /\ Len(qBatch) <= WideBatchSize
        /\ \E a \in 1..(Len(pdata) + 1), b \in 0..Len(pdata) :
              qBatch = SubSeq(pdata, a, b)
        /\ MinuteCandles(pdata) => ~HasDupKeys(qBatch)

---------------------------------------------------------------------------
(* Observations on the phases of a symbol's sync *)

\* fetchOHLCVData has thrown into fetchExchangeOHLCV
FetchFailed == cpc = "fetching" /\ fpc = "threw"

\* persistOHLCVInBatches is not entered or left in the step
PersistUntouched == ppc' = ppc /\ pdata' = pdata /\ qpc' = qpc /\ qBatch' = qBatch

(* C24: from the start of a symbol's fetch until fetchOHLCVData has returned
   nothing is written; when fetchOHLCVData throws, whatever it had fetched,
   the next step ends the cycle without entering persistOHLCVInBatches, and
   nothing is written afterwards: the storage is as it was when the symbol's
   run began. *)
C24_FailedFetchWritesNothing ==
    [][/\ cpc \in {"loop", "fetching", "done"} =>
             db' = db /\ dbTables' = dbTables
       /\ FetchFailed => cpc' = "done" /\ PersistUntouched
       /\ cpc = "done" => cpc' = "done" /\ PersistUntouched]_vars

\* a cycle ended by a fetch that failed after a page had been fetched
C24_Witness ==
    /\ cpc = "done"
    /\ fpc = "threw"
    /\ failedAt >= 1
    /\ caught = thrown
    /\ caught # NoError
    /\ pageLog # <<>>
    /\ allData # <<>>

---------------------------------------------------------------------------
(* Observations on the end of cycles *)

\* the handler of firing t has left its cycle, normally or through an error
CycleOver(t) == tickPc[t] \in {"ended", "failed"}

\* the cycle of firing t ends in the step
CycleEnds(t) == tickPc[t] = "cycle" /\ CycleOver(t)'

\* the trigger fires in the step
Fires == fired' = fired + 1

\* one call of fetchExchangeOHLCV comes to its end when every call it awaits
\* settles: the retries of the page loop and of the writes are bounded
FetchExchangeReturns == <>(cpc = "done")

(* C25: every cycle that starts ends when each awaited call settles; the
   step that ends a cycle, normally or through an error, clears the flag;
   a cleared flag stays cleared until the trigger fires, and a firing that
   finds it cleared starts a new cycle. *)
C25_NoPermanentLockout ==
    /\ \A t \in Ticks : (tickPc[t] = "cycle") ~> CycleOver(t)
    /\ [][/\ \A t \in Ticks : CycleEnds(t) => ~syncing'
          /\ (~syncing /\ ~Fires) => ~syncing'
          /\ (~syncing /\ Fires) => tickPc'[fired + 1] = "cycle"]_vars

\* a cycle ended through an error and the next firing started a new cycle
C25_Witness ==
    /\ fired = 2
    /\ tickPc[1] = "failed"
    /\ tickPc[2] = "cycle"
    /\ syncing

---------------------------------------------------------------------------
(* Observations on the candles kept by parseOHLCVData *)

\* the timestamps of the fetched candles that have closed by the time nowMs
ClosedBy(data, nowMs) ==
    {data[i][1] : i \in {k \in 1..Len(data) : data[k][1] + OneMinuteMs <= nowMs}}

(* C26: every candle fetchExchangeOHLCV hands to persistOHLCVInBatches has
   close_time <= Date.now() as read when parseOHLCVData ran, and the candles
   handed over are the fetched candles that had closed by then: a candle
   whose minute is still open is left out. *)
C26_OnlyCompleteCandles ==
    [][HandedOver =>
         /\ \A i \in 1..Len(pdata') : pdata'[i].close_time <= now
         /\ {pdata'[i].open_time : i \in 1..Len(pdata')} = ClosedBy(finalData, now)]_vars

\* candles were handed over while the exchange held a later candle whose
\* minute had begun and was still open
C26_Witness ==
    /\ cpc = "persisting"
    /\ pdata # <<>>
    /\ \E t \in market :
          /\ t > pdata[Len(pdata)].open_time
          /\ t <= now
          /\ t + OneMinuteMs > now
          /\ \A i \in 1..Len(pdata) : pdata[i].open_time # t

---------------------------------------------------------------------------
(* C27: the missingCandles counter of a run that has returned is never
   negative. *)
C27_GapCountNonNegative ==
    fpc = "returned" => missingCandles >= 0

=============================================================================
